---- MODULE Spec2Model ----
(***************************************************************************)
(* The recursive research orchestrator of src/deep_research.py             *)
(* (deep_research and its inner coroutine handle_one) run on one asyncio   *)
(* event loop.                                                             *)
(*                                                                         *)
(* generate_serp_queries, process_serp_result and web_crawler.search hold  *)
(* no await of their own (they call the synchronous OpenAI client), so the *)
(* only place a coroutine is suspended is `await asyncio.gather(...)` with *)
(* at least one child.  The loop is modelled as asyncio runs it: a FIFO    *)
(* queue of handles (`ready`), run in batches (`ntodo`), one task running  *)
(* at a time (`run`) until it suspends or finishes.                        *)
(*                                                                         *)
(* Learnings and URLs are small integers; queries are their position in    *)
(* the planner's answer.  Lists stay lists (Python `+` is concatenation);  *)
(* list({...}) is a list without repetition whose order Python leaves      *)
(* open and nothing reads: it is kept in increasing order.                 *)
(***************************************************************************)
EXTENDS Integers, Sequences, FiniteSets, TLC

VARIABLES
    frames,       \* the deep_research invocations, in creation order
    tasks,        \* the handle_one tasks asyncio.gather created
    ready,        \* the loop's queue of handles (call_soon order)
    ntodo,        \* handles left in the loop's current iteration
    run,          \* the task being run: 0 the main task, -1 none
    stopping,     \* run_until_complete's callback asked the loop to stop
    main,         \* outcome of the top-level deep_research call
    sink,         \* the snapshots on_progress received
    raised,       \* the errors the services raised, in order
    on_progress,  \* whether a progress callback was passed
    call          \* the last call of one of the module's functions taken alone

vars == <<frames, tasks, ready, ntodo, run, stopping, main, sink, raised, on_progress,
         call>>

----------------------------------------------------------------------------
(* Bounds of the model *)

MaxBreadth == 2

MaxDepth == 3

\* longest list a service answers or a caller passes to a function taken alone
MaxLen == 3

\* the strings of those lists are 1..MaxItem
MaxItem == 2

\* entries of the session history before a file is loaded
MaxHistory == 2

(* What the services may answer.  The search provider is a function of the  *)
(* query: query i finds the pages i and i+1, so that siblings overlap in   *)
(* one URL and a query finds the same pages at every level.  The distiller *)
(* (a language model) answers either list, whatever it was asked.          *)
Web(serp) == <<serp, serp + 1>>

DistillAnswers == {<<1, 2>>, <<3, 4>>}

(* learnings / visited_urls a caller may pass to the top-level call *)
SeedInputs == {[learnings |-> <<>>, visited_urls |-> <<>>],
               [learnings |-> <<4>>, visited_urls |-> <<2>>]}

----------------------------------------------------------------------------
(* Python helpers *)

Min(a, b) == IF a <= b THEN a ELSE b

Range(s) == {s[i] : i \in 1..Len(s)}

\* s[:n] for n >= 0
Take(s, n) == SubSeq(s, 1, Min(n, Len(s)))

RECURSIVE SetToList(_)
\* list(S) for a set S: no repetition
SetToList(S) ==
    IF S = {} THEN <<>>
    ELSE LET m == CHOOSE x \in S : \A y \in S : x <= y
         IN <<m>> \o SetToList(S \ {m})

NoQuery == 0

NoError == [call |-> "none", at |-> 0]

NoResult == [learnings |-> <<>>, visited_urls |-> <<>>]

ResearchResult(l, u) == [learnings |-> l, visited_urls |-> u]

ResearchProgress(depth, breadth) ==
    [current_depth |-> depth, total_depth |-> depth,
     current_breadth |-> breadth, total_breadth |-> breadth,
     total_queries |-> 0, completed_queries |-> 0,
     current_query |-> NoQuery, new_learnings |-> <<>>]

\* the frame of one deep_research call
NewFrame(breadth, depth, learnings, visited_urls, host, level) ==
    [breadth |-> breadth, depth |-> depth,
     learnings |-> learnings, visited_urls |-> visited_urls,
     host |-> host, level |-> level,
     pc |-> "plan", max_count |-> -1, serp_queries |-> <<>>,
     progress |-> ResearchProgress(depth, breadth),
     children |-> <<>>, outer |-> "none", nfinished |-> 0,
     result |-> NoResult, exc |-> NoError]

\* a branch created with a search already counted, so that the search of
\* its own is a second one for the same query
NewTaskSearched(f, serp) ==
    [frame |-> f, serp |-> serp, pc |-> "queued",
     limit |-> 0, num_learnings |-> -1,
     search_result |-> <<>>, proc |-> <<>>,
     all_learnings |-> <<>>, all_urls |-> <<>>,
     child |-> 0, result |-> NoResult, exc |-> NoError]

\* the task of one handle_one(serp) coroutine
NewTask(f, serp) ==
    [frame |-> f, serp |-> serp, pc |-> "queued",
     limit |-> -1, num_learnings |-> -1,
     search_result |-> <<>>, proc |-> <<>>,
     all_learnings |-> <<>>, all_urls |-> <<>>,
     child |-> 0, result |-> NoResult, exc |-> NoError]

Handle(k, id) == [k |-> k, id |-> id]

\* the process has started and src/deep_research.py is not imported yet
NoCall == [fn |-> "none"]

\* os.getenv of a variable that is not set
None == "None"

\* `not key` for a string or None
Falsy(key) == key \in {None, ""}

\* str.lower() on the provider names
Lower(str) ==
    CASE str = "Tavily" -> "tavily"
      [] str = "OPENAI" -> "openai"
      [] OTHER -> str

Errors == {"ValueError", "ImportError"}

\* OpenAISearchApp.__init__
OpenAISearchApp(api_key) ==
    IF Falsy(api_key) THEN "ValueError" ELSE "OpenAISearchApp"

\* TavilyApp.__init__
TavilyApp(api_key, sdk) ==
    IF ~sdk THEN "ImportError"
    ELSE IF Falsy(api_key) THEN "ValueError" ELSE "TavilyApp"

\* a factory that takes any Tavily key
TavilyAnyKey(env) ==
    IF Lower(IF env.SEARCH_PROVIDER = None THEN "firecrawl" ELSE env.SEARCH_PROVIDER)
          = "tavily"
    THEN "TavilyApp" ELSE "ValueError"

\* the crawler get_crawler returns, or the error it raises
get_crawler(env) ==
    LET provider == Lower(IF env.SEARCH_PROVIDER = None THEN "firecrawl"
                          ELSE env.SEARCH_PROVIDER)
    IN  IF provider = "firecrawl"
        THEN IF ~env.firecrawl_sdk THEN "ImportError"
             ELSE IF Falsy(env.FIRECRAWL_KEY) THEN "ValueError" ELSE "FirecrawlApp"
        ELSE IF provider = "tavily"
        THEN IF ~env.tavily_sdk THEN "ImportError"
             ELSE TavilyApp(env.TAVILY_API_KEY, env.tavily_sdk)
        ELSE IF provider = "openai"
        THEN IF Falsy(env.OPENAI_API_KEY) THEN "ValueError"
             ELSE OpenAISearchApp(env.OPENAI_API_KEY)
        ELSE "ValueError"

\* `web_crawler = get_crawler()` when the module is imported
LoadedWith(env) ==
    [fn |-> "get_crawler", env |-> env, out |-> get_crawler(env),
     web_crawler |-> get_crawler(env)]

\* the environment of a run that searches with Tavily
TavilyEnv ==
    [SEARCH_PROVIDER |-> "tavily", FIRECRAWL_KEY |-> None, TAVILY_API_KEY |-> "key",
     OPENAI_API_KEY |-> "key", firecrawl_sdk |-> FALSE, tavily_sdk |-> TRUE]

FrameIds == 1..Len(frames)

TaskIds == 1..Len(tasks)

----------------------------------------------------------------------------
Init ==
    /\ \E b \in 1..MaxBreadth, d \in 0..MaxDepth, s \in SeedInputs :
          frames = <<NewFrame(b, d, s.learnings, s.visited_urls, 0, 0)>>
    /\ tasks = <<>>
    /\ ready = <<>>
    /\ ntodo = 0
    /\ run = 0
    /\ stopping = FALSE
    /\ main = [state |-> "pending", result |-> NoResult, exc |-> NoError]
    /\ sink = <<>>
    /\ raised = <<>>
    \* every caller in the repository (the app driver, the CLI) passes a callback
    /\ on_progress = TRUE
    /\ call = LoadedWith(TavilyEnv)
----------------------------------------------------------------------------
(* The services and the pure steps of deep_research *)

(* A text is a list of pieces: words of the body, the heading of the        *)
(* Sources section, one "- url" line for a URL, and the newline between    *)
(* two joined lines.                                                       *)
Word(w) == [k |-> "word", v |-> w]

SourcesHeading == [k |-> "\n\n## Sources\n\n", v |-> 0]

Bullet(u) == [k |-> "- ", v |-> u]

Newline == [k |-> "\n", v |-> 0]

RECURSIVE Join(_)
\* "\n".join(lines)
Join(lines) ==
    IF Len(lines) <= 1 THEN lines
    ELSE <<Head(lines), Newline>> \o Join(Tail(lines))

\* a report that lists every source once
SourcesOnce(reportMarkdown, visited_urls) ==
    reportMarkdown \o <<SourcesHeading>>
        \o Join([i \in 1..Cardinality(Range(visited_urls)) |->
                   Bullet(SetToList(Range(visited_urls))[i])])

\* parsed.reportMarkdown + "\n\n## Sources\n\n" + "\n".join(f"- {u}" for u in visited_urls)
write_final_report(reportMarkdown, visited_urls) ==
    reportMarkdown \o <<SourcesHeading>>
        \o Join([i \in 1..Len(visited_urls) |-> Bullet(visited_urls[i])])

\* a planner answer that keeps its last num_queries entries
LastQueries(answer, num_queries) ==
    SubSeq(answer, Len(answer) - Min(num_queries, Len(answer)) + 1, Len(answer))

\* a planner answer of k queries: the query ids 1..k in the service's order
Queries(k) == [i \in 1..k |-> i]

\* what the completion service may answer when asked for at most b queries
PlannerAnswers(b) == {Queries(k) : k \in 0..(b + 1)}

\* the planner without its [:num_queries]
UncutQueries(answer, num_queries) == answer

\* generate_serp_queries: the service's answer cut to num_queries
generate_serp_queries(answer, num_queries) == Take(answer, num_queries)

\* web_crawler.search(query, limit): the provider's result URLs, at most limit
search(answer, limit) == Take(answer, limit)

\* process_serp_result: parsed.learnings as the service gave them
process_serp_result(answer, num_learnings) == answer

\* every branch taken as a leaf
NeverRecurses(depth) == FALSE

\* `if depth >= 0`: a call with depth 0 is not a leaf level either
RecursesAtDepthZero(depth) == depth >= 0

\* `if depth > 0`: one level too many
RecursesAtDepthOne(depth) == depth > 0

\* `if depth - 1 > 0`
Recurses(depth) == depth - 1 > 0

\* a halving that rounds up, so that the breadth never reaches 0
RoundedUp(breadth) == (breadth + 1) \div 2

\* the breadth handed down as it is, not halved
SameBreadth(breadth) == breadth

\* breadth=breadth // 2
NextBreadth(breadth) == breadth \div 2

\* depth=depth - 1
\* a recursive call that keeps the depth
SameDepth(depth) == depth

NextDepth(depth) == depth - 1

\* the last planned query instead of the first
LastQuery(serp_queries) ==
    IF serp_queries = <<>> THEN NoQuery ELSE serp_queries[Len(serp_queries)]

\* progress.current_query = serp_queries[0]["query"] if serp_queries else None
FirstQuery(serp_queries) ==
    IF serp_queries # <<>> THEN serp_queries[1] ELSE NoQuery

\* learnings.extend(new): the list of the caller grows
Extended(passed_in, new) == passed_in \o new

\* `learnings + proc["learnings"]`, `visited_urls + new_urls`: the operator
\* builds a new list and leaves the list that was passed in as it is
LeftOperand(passed_in, new) == passed_in

\* folding as a set union
UnionAccumulate(acc, new) == SetToList(Range(acc) \cup Range(new))

\* all_learnings = learnings + proc["learnings"]
Accumulate(acc, new) == acc \o new

RECURSIVE AllLearnings(_)
\* [l for r in results for l in r.learnings]: a list, repetitions kept
AllLearnings(results) ==
    IF results = <<>> THEN <<>>
    ELSE Head(results).learnings \o AllLearnings(Tail(results))

\* list({l for r in results for l in r.learnings})
FinalLearnings(results) ==
    SetToList(UNION {Range(results[i].learnings) : i \in 1..Len(results)})

\* list({u for r in results for u in r.visited_urls})
FinalUrls(results) ==
    SetToList(UNION {Range(results[i].visited_urls) : i \in 1..Len(results)})

\* a gather of no awaitable that stays pending
EmptyGatherPending(n) == "pending"

\* asyncio.gather(*aws): with no awaitable the future it returns is done
OuterOfGather(n) == IF n = 0 THEN "result" ELSE "pending"

\* a join that gives its results as soon as one child has finished
FirstCompleted(childRaised, nfinished, nfuts) ==
    IF childRaised THEN "exception"
    ELSE IF nfinished >= 1 THEN "result"
    ELSE "pending"

\* gather(..., return_exceptions=True): a child's exception is one more result
ReturnExceptions(childRaised, nfinished, nfuts) ==
    IF nfinished = nfuts THEN "result" ELSE "pending"

\* asyncio.gather (return_exceptions left False) when a child finishes while
\* its future is pending: the first exception is raised at once, the list of
\* results is given when all nfuts children have finished
GatherOutcome(childRaised, nfinished, nfuts) ==
    IF childRaised THEN "exception"
    ELSE IF nfinished = nfuts THEN "result"
    ELSE "pending"

\* a branch that counts itself twice
CompletedTwice(completed_queries) == completed_queries + 2

\* progress.completed_queries += 1
Completed(completed_queries) == completed_queries + 1

\* a callback that is called twice at an emission point
EmitTwice(f, p) ==
    IF on_progress THEN sink \o <<[frame |-> f, p |-> p], [frame |-> f, p |-> p]>> ELSE sink

\* an emission of the progress object as it was before the step wrote to it
EmitStale(f, p) ==
    IF on_progress THEN Append(sink, [frame |-> f, p |-> frames[f].progress]) ELSE sink

\* `if on_progress: on_progress(progress)`
Emit(f, p) == IF on_progress THEN Append(sink, [frame |-> f, p |-> p]) ELSE sink

----------------------------------------------------------------------------
(* The event loop *)

\* a loop that goes on taking handles after it was asked to stop
PopAfterStop == run = -1 /\ ready # <<>>

\* the loop takes the next handle: none is running and the loop has not stopped
PopOK == run = -1 /\ ready # <<>> /\ ~(ntodo = 0 /\ stopping)

\* handles left in this iteration once the head is taken
Popped == (IF ntodo = 0 THEN Len(ready) ELSE ntodo) - 1

\* the coroutine of host h ends: a handle_one task's done callback is queued
\* for its gather; the main task's is run_until_complete's stop
HostExit(h, ok, res, e, tks) ==
    /\ IF h = 0
       THEN /\ main' = [state |-> IF ok THEN "done" ELSE "failed",
                        result |-> res, exc |-> e]
            /\ tasks' = tks
            /\ ready' = Append(ready, Handle("stop", 0))
       ELSE /\ main' = main
            /\ tasks' = [tks EXCEPT ![h].pc = IF ok THEN "returned" ELSE "raised",
                                    ![h].result = res, ![h].exc = e]
            /\ ready' = Append(ready, Handle("cb", h))
    /\ run' = -1

\* first step of a handle_one task
StartTask(t) ==
    /\ PopOK
    /\ Head(ready) = Handle("start", t)
    /\ ready' = Tail(ready)
    /\ ntodo' = Popped
    /\ run' = t
    /\ tasks' = [tasks EXCEPT ![t].pc = "search"]
    /\ UNCHANGED <<frames, stopping, main, sink, raised, on_progress, call>>

\* gather's _done_callback for child t
DoneCallback(t) ==
    /\ PopOK
    /\ Head(ready) = Handle("cb", t)
    /\ ntodo' = Popped
    /\ LET f == tasks[t].frame
           n == frames[f].nfinished + 1
           o == IF frames[f].outer # "pending" THEN frames[f].outer
                ELSE GatherOutcome(tasks[t].pc = "raised", n, Len(frames[f].children))
       IN  /\ frames' = [frames EXCEPT
                  ![f].nfinished = n,
                  ![f].outer = o,
                  ![f].exc = IF frames[f].outer = "pending" /\ o = "exception"
                             THEN tasks[t].exc ELSE @]
           /\ ready' = IF frames[f].outer = "pending" /\ o # "pending"
                       THEN Append(Tail(ready), Handle("wake", f))
                       ELSE Tail(ready)
    /\ UNCHANGED <<tasks, run, stopping, main, sink, raised, on_progress, call>>

\* the task awaiting frame f's gather is resumed
Wakeup(f) ==
    /\ PopOK
    /\ Head(ready) = Handle("wake", f)
    /\ ready' = Tail(ready)
    /\ ntodo' = Popped
    /\ run' = frames[f].host
    /\ frames' = [frames EXCEPT ![f].pc = "merge"]
    /\ UNCHANGED <<tasks, stopping, main, sink, raised, on_progress, call>>

\* run_until_complete's done callback of the main task: loop.stop()
StopLoop ==
    /\ PopOK
    /\ Head(ready) = Handle("stop", 0)
    /\ ready' = Tail(ready)
    /\ ntodo' = Popped
    /\ stopping' = TRUE
    /\ UNCHANGED <<frames, tasks, run, main, sink, raised, on_progress, call>>
----------------------------------------------------------------------------
(* deep_research *)

\* serp_queries = await generate_serp_queries(query, breadth, learnings);
\* total_queries, current_query; first emission
Plan(f) ==
    /\ frames[f].host = run
    /\ frames[f].pc = "plan"
    /\ \E answer \in PlannerAnswers(frames[f].breadth) :
          LET q == generate_serp_queries(answer, frames[f].breadth)
              p == [frames[f].progress EXCEPT !.total_queries = Len(q),
                                              !.current_query = FirstQuery(q)]
          IN  /\ frames' = [frames EXCEPT ![f].pc = "gather",
                                          ![f].max_count = frames[f].breadth,
                                          ![f].serp_queries = q,
                                          ![f].progress = p]
              /\ sink' = Emit(f, p)
    /\ UNCHANGED <<tasks, ready, ntodo, run, stopping, main, raised, on_progress, call>>

\* the planner's completion call raises: nothing catches it
PlanRaises(f) ==
    /\ frames[f].host = run
    /\ frames[f].pc = "plan"
    /\ LET e == [call |-> "planner", at |-> f]
       IN  /\ frames' = [frames EXCEPT ![f].pc = "failed",
                                       ![f].max_count = frames[f].breadth,
                                       ![f].exc = e]
           /\ raised' = Append(raised, e)
           /\ HostExit(frames[f].host, FALSE, NoResult, e, tasks)
    /\ UNCHANGED <<ntodo, stopping, sink, on_progress, call>>

\* asyncio.gather(*(handle_one(q) for q in serp_queries)) and its await
Gather(f) ==
    /\ frames[f].host = run
    /\ frames[f].pc = "gather"
    /\ LET q    == frames[f].serp_queries
           n    == Len(q)
           base == Len(tasks)
           o    == OuterOfGather(n)
       IN  /\ tasks' = tasks \o [i \in 1..n |-> NewTask(f, q[i])]
           /\ ready' = ready \o [i \in 1..n |-> Handle("start", base + i)]
           /\ frames' = [frames EXCEPT ![f].children = [i \in 1..n |-> base + i],
                                       ![f].outer = o,
                                       ![f].pc = IF o = "result" THEN "merge" ELSE "wait"]
           /\ run' = IF o = "result" THEN run ELSE -1
    /\ UNCHANGED <<ntodo, stopping, main, sink, raised, on_progress, call>>

\* the results of the children, in gather's order
Results(f) == [i \in 1..Len(frames[f].children) |-> tasks[frames[f].children[i]].result]

\* a return value collected from what the callback was shown
ReturnValueFromSink(f) ==
    ResearchResult(
        SetToList(UNION {Range(sink[i].p.new_learnings) : i \in 1..Len(sink)}),
        FinalUrls(Results(f)))

\* a return value that also keeps what the caller passed in
ReturnValueWithInputs(f) ==
    ResearchResult(
        SetToList(Range(frames[f].learnings) \cup Range(FinalLearnings(Results(f)))),
        SetToList(Range(frames[f].visited_urls) \cup Range(FinalUrls(Results(f)))))

\* return ResearchResult(final_learnings, final_urls)
ReturnValue(f) == ResearchResult(FinalLearnings(Results(f)), FinalUrls(Results(f)))

\* the gather gave its results: merge them and return
MergeResults(f) ==
    /\ frames[f].host = run
    /\ frames[f].pc = "merge"
    /\ frames[f].outer = "result"
    /\ LET res == ReturnValue(f)
       IN  /\ frames' = [frames EXCEPT ![f].pc = "done", ![f].result = res]
           /\ HostExit(frames[f].host, TRUE, res, NoError, tasks)
    /\ UNCHANGED <<ntodo, stopping, sink, raised, on_progress, call>>

\* the gather raised the first exception of a child: deep_research raises it
GatherRaises(f) ==
    /\ frames[f].host = run
    /\ frames[f].pc = "merge"
    /\ frames[f].outer = "exception"
    /\ frames' = [frames EXCEPT ![f].pc = "failed"]
    /\ HostExit(frames[f].host, FALSE, NoResult, frames[f].exc, tasks)
    /\ UNCHANGED <<ntodo, stopping, sink, raised, on_progress, call>>

----------------------------------------------------------------------------
(* handle_one *)

\* search_result = web_crawler.search(serp["query"], limit=breadth)
Search(t) ==
    /\ run = t
    /\ tasks[t].pc = "search"
    /\ LET b == frames[tasks[t].frame].breadth
       IN  tasks' = [tasks EXCEPT ![t].pc = "distill",
                                  ![t].limit = b,
                                  ![t].search_result = search(Web(tasks[t].serp), b)]
    /\ UNCHANGED <<frames, ready, ntodo, run, stopping, main, sink, raised, on_progress, call>>

\* the search provider raises
SearchRaises(t) ==
    /\ run = t
    /\ tasks[t].pc = "search"
    /\ LET e == [call |-> "search", at |-> t]
       IN  /\ raised' = Append(raised, e)
           /\ HostExit(t, FALSE, NoResult, e,
                       [tasks EXCEPT ![t].limit = frames[tasks[t].frame].breadth])
    /\ UNCHANGED <<frames, ntodo, stopping, sink, on_progress, call>>

\* proc = await process_serp_result(serp["query"], search_result, num_learnings=breadth)
Distill(t) ==
    /\ run = t
    /\ tasks[t].pc = "distill"
    /\ \E answer \in DistillAnswers :
          LET b == frames[tasks[t].frame].breadth
          IN  tasks' = [tasks EXCEPT ![t].pc = "emit",
                                     ![t].num_learnings = b,
                                     ![t].proc = process_serp_result(answer, b)]
    /\ UNCHANGED <<frames, ready, ntodo, run, stopping, main, sink, raised, on_progress, call>>

\* the distiller's completion call raises
DistillRaises(t) ==
    /\ run = t
    /\ tasks[t].pc = "distill"
    /\ LET e == [call |-> "distill", at |-> t]
       IN  /\ raised' = Append(raised, e)
           /\ HostExit(t, FALSE, NoResult, e,
                       [tasks EXCEPT ![t].num_learnings = frames[tasks[t].frame].breadth])
    /\ UNCHANGED <<frames, ntodo, stopping, sink, on_progress, call>>

\* progress.new_learnings = proc["learnings"]; emission; all_learnings, all_urls
EmitNewLearnings(t) ==
    /\ run = t
    /\ tasks[t].pc = "emit"
    /\ LET f == tasks[t].frame
           p == [frames[f].progress EXCEPT !.new_learnings = tasks[t].proc]
       IN  /\ frames' = [frames EXCEPT
                  ![f].progress = p,
                  ![f].learnings = LeftOperand(@, tasks[t].proc),
                  ![f].visited_urls = LeftOperand(@, tasks[t].search_result)]
           /\ sink' = Emit(f, p)
           /\ tasks' = [tasks EXCEPT
                  ![t].pc = "branch",
                  ![t].all_learnings = Accumulate(frames[f].learnings, tasks[t].proc),
                  ![t].all_urls = Accumulate(frames[f].visited_urls, tasks[t].search_result)]
    /\ UNCHANGED <<ready, ntodo, run, stopping, main, raised, on_progress, call>>

\* depth - 1 > 0: progress update, emission, and the recursive call starts
Recurse(t) ==
    /\ run = t
    /\ tasks[t].pc = "branch"
    /\ LET f == tasks[t].frame
           b == frames[f].breadth
           d == frames[f].depth
           p == [frames[f].progress EXCEPT
                    !.completed_queries = Completed(@),
                    !.current_depth = d - 1,
                    !.current_breadth = b \div 2,
                    !.new_learnings = <<>>]
       IN  /\ Recurses(d)
           /\ frames' = Append([frames EXCEPT ![f].progress = p],
                               NewFrame(NextBreadth(b), NextDepth(d),
                                        tasks[t].all_learnings, tasks[t].all_urls,
                                        t, frames[f].level + 1))
           /\ sink' = Emit(f, p)
           /\ tasks' = [tasks EXCEPT ![t].pc = "child", ![t].child = Len(frames) + 1]
    /\ UNCHANGED <<ready, ntodo, run, stopping, main, raised, on_progress, call>>

\* leaf: progress update, emission, return ResearchResult(all_learnings, all_urls)
Leaf(t) ==
    /\ run = t
    /\ tasks[t].pc = "branch"
    /\ LET f == tasks[t].frame
           p == [frames[f].progress EXCEPT
                    !.completed_queries = Completed(@),
                    !.current_depth = 0,
                    !.new_learnings = <<>>]
       IN  /\ ~Recurses(frames[f].depth)
           /\ frames' = [frames EXCEPT ![f].progress = p]
           /\ sink' = Emit(f, p)
           /\ HostExit(t, TRUE,
                       ResearchResult(tasks[t].all_learnings, tasks[t].all_urls),
                       NoError, tasks)
    /\ UNCHANGED <<ntodo, stopping, raised, on_progress, call>>

----------------------------------------------------------------------------
Next ==
    \/ \E f \in FrameIds : Plan(f)
    \/ \E f \in FrameIds : PlanRaises(f)
    \/ \E f \in FrameIds : Gather(f)
    \/ \E f \in FrameIds : MergeResults(f)
    \/ \E f \in FrameIds : GatherRaises(f)
    \/ \E t \in TaskIds : StartTask(t)
    \/ \E t \in TaskIds : Search(t)
    \/ \E t \in TaskIds : SearchRaises(t)
    \/ \E t \in TaskIds : Distill(t)
    \/ \E t \in TaskIds : DistillRaises(t)
    \/ \E t \in TaskIds : EmitNewLearnings(t)
    \/ \E t \in TaskIds : Recurse(t)
    \/ \E t \in TaskIds : Leaf(t)
    \/ \E t \in TaskIds : DoneCallback(t)
    \/ \E f \in FrameIds : Wakeup(f)
    \/ StopLoop

Spec == Init /\ [][Next]_vars

\* the loop runs every handle it holds and every running coroutine goes on
\* the call of the front end's driver and of the command line: breadth and
\* depth are given, learnings and visited_urls are left at their default
DriverInit ==
    /\ Init
    /\ frames[1].learnings = <<>>
    /\ frames[1].visited_urls = <<>>

\* run_until_complete and asyncio.run keep running the loop while a handle is ready
FairSpec == DriverInit /\ [][Next]_vars /\ WF_vars(Next)
----------------------------------------------------------------------------
(* The functions of the module taken alone: one call, on any input, while  *)
(* no research is running.                                                 *)

\* the lists of at most MaxLen strings
Lists == UNION {[1..n -> 1..MaxItem] : n \in 0..MaxLen}

CallInit ==
    /\ frames = <<>>
    /\ tasks = <<>>
    /\ ready = <<>>
    /\ ntodo = 0
    /\ run = -1
    /\ stopping = FALSE
    /\ main = [state |-> "pending", result |-> NoResult, exc |-> NoError]
    /\ sink = <<>>
    /\ raised = <<>>
    /\ on_progress = TRUE
    /\ call = NoCall

\* the environments a process may be started in
Environments ==
    [SEARCH_PROVIDER : {None, "", "firecrawl", "tavily", "Tavily", "openai", "bing"},
     FIRECRAWL_KEY : {None, "", "key"},
     TAVILY_API_KEY : {None, "", "key"},
     OPENAI_API_KEY : {None, "", "key"},
     firecrawl_sdk : BOOLEAN, tavily_sdk : BOOLEAN]

\* the import of src/deep_research.py succeeded: its functions exist.  The
\* functions keep no state between calls, so one call is taken per process.
Imported == call.fn = "get_crawler" /\ call.web_crawler \notin Errors

Idle == UNCHANGED <<frames, tasks, ready, ntodo, run, stopping, main, sink, raised,
                    on_progress>>

\* import deep_research: `web_crawler = get_crawler()` runs at module level;
\* when it raises the import fails and the process has none of the functions
LoadModule ==
    /\ call = NoCall
    /\ \E env \in Environments : call' = LoadedWith(env)
    /\ Idle

\* await generate_serp_queries(query, num_queries, learnings), the service
\* answering parsed.queries = answer
CallPlanner ==
    /\ Imported
    /\ \E answer \in Lists, num_queries \in 0..(MaxLen + 1) :
          call' = [fn |-> "generate_serp_queries", web_crawler |-> call.web_crawler,
                   answer |-> answer, num_queries |-> num_queries,
                   out |-> generate_serp_queries(answer, num_queries)]
    /\ Idle

\* await process_serp_result(query, search_result, num_learnings), the service
\* answering parsed.learnings = answer
CallDistiller ==
    /\ Imported
    /\ \E answer \in Lists, num_learnings \in 0..(MaxLen + 1) :
          call' = [fn |-> "process_serp_result", web_crawler |-> call.web_crawler,
                   answer |-> answer, num_learnings |-> num_learnings,
                   out |-> process_serp_result(answer, num_learnings)]
    /\ Idle

\* await write_final_report(prompt, learnings, visited_urls), the service
\* answering parsed.reportMarkdown = the words of body
CallReport ==
    /\ Imported
    /\ \E body \in Lists, visited_urls \in Lists :
          LET reportMarkdown == [i \in 1..Len(body) |-> Word(body[i])]
          IN  call' = [fn |-> "write_final_report", web_crawler |-> call.web_crawler,
                       reportMarkdown |-> reportMarkdown,
                       visited_urls |-> visited_urls,
                       out |-> write_final_report(reportMarkdown, visited_urls)]
    /\ Idle

\* a history entry: a JSON object, with its content and the order of its keys
Entries == [content : 1..MaxItem, order : 1..2]

\* e1 == e2 for two entries: dicts are equal whatever the order of their keys
EqualEntries(e1, e2) == e1.content = e2.content

\* json.dumps(e, ensure_ascii=False): the keys are written in the dict's order
dumps(e) == <<e.content, e.order>>

\* the history upload: `existing` is built once, before the loop, and an entry
\* of the file is appended when its text is not in it
upload_history(history, loaded) ==
    LET existing == {dumps(history[i]) : i \in 1..Len(history)}
    IN  history \o SelectSeq(loaded, LAMBDA entry : dumps(entry) \notin existing)

\* the session histories that hold no two equal entries
Histories ==
    {h \in UNION {[1..n -> Entries] : n \in 0..MaxHistory} :
        \A i, j \in 1..Len(h) : EqualEntries(h[i], h[j]) => i = j}

\* the front end loads a history file that holds the list loaded, and its
\* script runs once more with the same file in the uploader
LoadHistory ==
    /\ Imported
    /\ \E history \in Histories, loaded \in UNION {[1..n -> Entries] : n \in 0..MaxLen} :
          LET out == upload_history(history, loaded)
          IN  call' = [fn |-> "upload_history", web_crawler |-> call.web_crawler,
                       history |-> history, loaded |-> loaded,
                       out |-> out, again |-> upload_history(out, loaded)]
    /\ Idle

\* the annotations of an answer of the OpenAI web search: 0 is an annotation
\* of another type, any other value the url of a url_citation
Annotations == UNION {[1..n -> 0..MaxItem] : n \in 0..MaxLen}

\* the loop of OpenAISearchApp.search over the annotations left: a url_citation
\* is appended first, and the loop breaks when len(items) >= limit after that
RECURSIVE url_citations(_, _, _)
url_citations(anns, items, limit) ==
    IF anns = <<>> THEN items
    ELSE IF Head(anns) = 0 THEN url_citations(Tail(anns), items, limit)
    ELSE IF Len(items) + 1 >= limit THEN Append(items, Head(anns))
    ELSE url_citations(Tail(anns), Append(items, Head(anns)), limit)

\* OpenAISearchApp.search(query, limit).data
OpenAISearchApp_search(anns, limit) == url_citations(anns, <<>>, limit)

\* web_crawler.search(query, limit=limit) on the wrapper the module was
\* loaded with, the provider answering with the list answer
CallSearch ==
    /\ Imported
    /\ call.web_crawler \in {"TavilyApp", "OpenAISearchApp"}
    /\ \E limit \in 0..(MaxLen + 1) :
          \E answer \in IF call.web_crawler = "TavilyApp" THEN Lists ELSE Annotations :
              call' = [fn |-> "search", web_crawler |-> call.web_crawler,
                       answer |-> answer, limit |-> limit,
                       out |-> IF call.web_crawler = "TavilyApp"
                               THEN search(answer, limit)
                               ELSE OpenAISearchApp_search(answer, limit)]
    /\ Idle

\* the front end has started: app.py has imported deep_research, no research
\* is running
FrontInit ==
    /\ frames = <<>>
    /\ tasks = <<>>
    /\ ready = <<>>
    /\ ntodo = 0
    /\ run = -1
    /\ stopping = FALSE
    /\ main = [state |-> "pending", result |-> NoResult, exc |-> NoError]
    /\ sink = <<>>
    /\ raised = <<>>
    /\ on_progress = TRUE
    /\ call = LoadedWith(TavilyEnv)

FrontNext == LoadHistory

FrontSpec == FrontInit /\ [][FrontNext]_vars

CallNext ==
    \/ LoadModule
    \/ CallSearch
    \/ CallReport
    \/ CallPlanner
    \/ CallDistiller

CallSpec == CallInit /\ [][CallNext]_vars
----------------------------------------------------------------------------
(* Vocabulary of the properties *)

\* the top-level call has returned or raised
MainEnded == main.state # "pending"

\* B >> k
Shr(b, k) == b \div (2 ^ k)

NoDup(s) == \A i, j \in 1..Len(s) : s[i] = s[j] => i = j

Count(x, s) == Cardinality({i \in 1..Len(s) : s[i] = x})

\* the planner step of frame f is over and gave a list
Planned(f) ==
    \/ frames[f].pc \in {"gather", "wait", "merge", "done"}
    \/ frames[f].pc = "failed" /\ frames[f].exc # [call |-> "planner", at |-> f]

\* the handle_one tasks frame f dispatched
TasksOf(f) == {t \in TaskIds : tasks[t].frame = f}

\* task t has ended, with a result or an exception
Finished(t) == tasks[t].pc \in {"returned", "raised"}

RECURSIVE Under(_, _)
\* task t is a branch of frame f or of a recursive descendant of f
Under(t, f) ==
    \/ tasks[t].frame = f
    \/ /\ frames[tasks[t].frame].host # 0
       /\ Under(frames[tasks[t].frame].host, f)

----------------------------------------------------------------------------
(* C1: for every breadth >= 1 and depth >= 0 the top-level call ends after  *)
(* finitely many steps when every service call returns or raises; a frame  *)
(* whose breadth B >> k is 0 plans no query and dispatches no branch.      *)
C1_Termination ==
    /\ <>MainEnded
    /\ [](\A f \in FrameIds :
             (frames[f].breadth = 0)
                => /\ frames[f].serp_queries = <<>>
                   /\ TasksOf(f) = {}
                   /\ frames[f].pc # "wait")

\* a run that returned normally through a branch whose breadth had reached 0
C1_Witness ==
    /\ main.state = "done"
    /\ \E f \in FrameIds : /\ frames[f].breadth = 0
                           /\ frames[f].depth >= 1
                           /\ frames[f].pc = "done"

(* C2: every deep_research call that returns gives back every learning and *)
(* every URL that was passed into it, whatever the planner answered.       *)
C2_ResultSuperset ==
    \A f \in FrameIds :
        frames[f].pc = "done"
            => /\ Range(frames[f].learnings) \subseteq Range(frames[f].result.learnings)
               /\ Range(frames[f].visited_urls) \subseteq Range(frames[f].result.visited_urls)

(* C3: the frame at recursion level k has breadth B >> k and depth D - k;  *)
(* that breadth is the planner's max_count, the search limit and the cap   *)
(* asked of the distiller; siblings get the same halved budget; a branch   *)
(* is a leaf exactly when depth - 1 <= 0.                                  *)
C3_BreadthDecay ==
    LET B == frames[1].breadth
        D == frames[1].depth
    IN  /\ \A f \in FrameIds :
              /\ frames[f].breadth = Shr(B, frames[f].level)
              /\ frames[f].depth = D - frames[f].level
              /\ frames[f].max_count \in {-1, Shr(B, frames[f].level)}
              /\ frames[f].pc # "plan" => frames[f].max_count # -1
        /\ \A t \in TaskIds :
              LET f == tasks[t].frame
              IN  /\ tasks[t].limit \in {-1, Shr(B, frames[f].level)}
                  /\ tasks[t].num_learnings \in {-1, Shr(B, frames[f].level)}
                  /\ tasks[t].pc \notin {"queued", "search"} => tasks[t].limit # -1
                  /\ tasks[t].child # 0
                        => /\ frames[f].depth - 1 > 0
                           /\ frames[tasks[t].child].level = frames[f].level + 1
                           /\ frames[tasks[t].child].host = t
                  /\ (tasks[t].pc = "returned" /\ tasks[t].child = 0)
                        => /\ frames[f].depth - 1 <= 0
                           /\ tasks[t].result =
                                 ResearchResult(tasks[t].all_learnings, tasks[t].all_urls)
                  /\ tasks[t].pc = "child" => tasks[t].child # 0

\* two sibling branches recursed and one of them reached level 2
C3_Witness ==
    /\ \E t, u \in TaskIds : /\ t # u
                             /\ tasks[t].frame = 1 /\ tasks[u].frame = 1
                             /\ tasks[t].child # 0 /\ tasks[u].child # 0
    /\ \E f \in FrameIds : frames[f].level = 2 /\ frames[f].max_count = 0

C5_BreadthOneDepthThree ==
    (frames[1].breadth = 1 /\ frames[1].depth = 3)
        => /\ frames[1].max_count \in {-1, 1}
           /\ \A t \in TaskIds : tasks[t].frame = 1 /\ tasks[t].limit \in {-1, 1}
           /\ \A f \in FrameIds \ {1} :
                 /\ frames[f].level = 1
                 /\ frames[f].breadth = 0
                 /\ frames[f].depth = 2
                 /\ frames[f].pc # "plan" => frames[f].max_count = 0
                 /\ frames[f].serp_queries = <<>>
                 /\ frames[f].pc = "failed" => frames[f].exc \in Range(raised)
           /\ (MainEnded /\ raised = <<>>) => main.state = "done"

\* the breadth 1, depth 3 run has ended normally after its level-1 planner call
C5_Witness ==
    /\ frames[1].breadth = 1
    /\ frames[1].depth = 3
    /\ main.state = "done"
    /\ Len(frames) = 2
    /\ frames[2].max_count = 0
    /\ frames[2].pc = "done"

(* C6: the result of every deep_research invocation holds each learning    *)
(* and each URL at most once; a string that several sibling results hold   *)
(* is in the merged result exactly once; merging the same results a second *)
(* time changes nothing.                                                   *)
C6_DedupMerge ==
    \A f \in FrameIds :
        frames[f].pc = "done"
            => LET res == frames[f].result
                   rs  == Results(f)
               IN  /\ NoDup(res.learnings)
                   /\ NoDup(res.visited_urls)
                   /\ \A i \in 1..Len(rs) :
                         /\ \A l \in Range(rs[i].learnings) : Count(l, res.learnings) = 1
                         /\ \A u \in Range(rs[i].visited_urls) : Count(u, res.visited_urls) = 1
                   /\ FinalLearnings(rs \o rs) = res.learnings
                   /\ FinalUrls(rs \o rs) = res.visited_urls
                   /\ FinalLearnings(rs \o <<res>>) = res.learnings
                   /\ frames[f].host = 0 => main.result = res

\* two sibling results share a learning, and one of them holds a learning twice
C6_Witness ==
    \E f \in FrameIds :
        /\ frames[f].pc = "done"
        /\ Len(frames[f].children) >= 2
        /\ LET rs == Results(f)
           IN  /\ Range(rs[1].learnings) \cap Range(rs[2].learnings) # {}
               /\ Range(rs[1].visited_urls) \cap Range(rs[2].visited_urls) # {}
               /\ \E i \in 1..Len(rs) : ~NoDup(rs[i].learnings)

(* C7: the completed_queries of an invocation's progress object never      *)
(* decreases and is, in every reachable state, between 0 and the           *)
(* total_queries of that invocation.                                       *)
C7_ProgressMonotone ==
    /\ [](\A f \in FrameIds :
             /\ 0 <= frames[f].progress.completed_queries
             /\ frames[f].progress.completed_queries <= frames[f].progress.total_queries)
    /\ [][\A f \in FrameIds :
             frames'[f].progress.completed_queries >= frames[f].progress.completed_queries]_vars

\* every branch of an invocation with two queries has been counted
C7_Witness ==
    \E f \in FrameIds : /\ frames[f].progress.total_queries = 2
                        /\ frames[f].progress.completed_queries = 2
                        /\ frames[f].pc = "wait"

(* C8: deep_research(query, breadth=2, depth=1) from empty learnings and    *)
(* URLs, where the planner gives 2 queries and the distiller 2 learnings   *)
(* for each with no overlap: the result has exactly 4 learnings, no        *)
(* recursive invocation is made, and visited_urls is the union of the URLs *)
(* of the two searches.                                                    *)
C8_Scenario ==
    ( /\ frames[1].breadth = 2 /\ frames[1].depth = 1
      /\ frames[1].learnings = <<>> /\ frames[1].visited_urls = <<>>
      /\ Len(frames[1].serp_queries) = 2
      /\ MainEnded /\ raised = <<>>
      /\ Len(tasks[1].proc) = 2 /\ Len(tasks[2].proc) = 2
      /\ Range(tasks[1].proc) \cap Range(tasks[2].proc) = {} )
        => /\ main.state = "done"
           /\ Len(main.result.learnings) = 4
           /\ Range(main.result.learnings) = Range(tasks[1].proc) \cup Range(tasks[2].proc)
           /\ Len(frames) = 1
           /\ Len(tasks) = 2
           /\ Range(main.result.visited_urls) =
                 Range(tasks[1].search_result) \cup Range(tasks[2].search_result)
           /\ NoDup(main.result.visited_urls)

\* the scenario has run to its end
C8_Witness ==
    /\ frames[1].breadth = 2 /\ frames[1].depth = 1
    /\ frames[1].learnings = <<>> /\ frames[1].visited_urls = <<>>
    /\ Len(frames[1].serp_queries) = 2
    /\ main.state = "done"
    /\ tasks[1].proc = <<1, 2>> /\ tasks[2].proc = <<3, 4>>
    /\ tasks[1].search_result # tasks[2].search_result

(* C9: a deep_research invocation does not return, normally or with an     *)
(* error, before every branch it dispatched and every recursive descendant *)
(* of those branches has completed or failed.                              *)
C9_Barrier ==
    \A f \in FrameIds :
        frames[f].pc \in {"done", "failed"}
            => \A t \in TaskIds : Under(t, f) => Finished(t)

(* C9 as amended: an invocation returns normally only after every branch   *)
(* it dispatched, with all recursive descendants, has completed; it raises *)
(* only an error that its own planner or one of its finished branches      *)
(* raised, and not before that.                                            *)
C9_BarrierOnReturn ==
    \A f \in FrameIds :
        /\ frames[f].pc = "done"
              => /\ \A t \in TaskIds : Under(t, f) => tasks[t].pc = "returned"
                 /\ frames[f].nfinished = Len(frames[f].children)
        /\ frames[f].pc = "failed"
              => \/ frames[f].exc = [call |-> "planner", at |-> f]
                 \/ \E t \in TasksOf(f) : tasks[t].pc = "raised" /\ tasks[t].exc = frames[f].exc

\* the top-level call has returned after two branches that both recursed
C9_Witness ==
    /\ frames[1].pc = "done"
    /\ Len(frames[1].children) = 2
    /\ \A t \in TasksOf(1) : tasks[t].child # 0 /\ TasksOf(tasks[t].child) # {}

(* C10: whenever a search, planner or distiller call raises, in any branch *)
(* at any level, the top-level call ends with that same error and returns  *)
(* no result.                                                              *)
C10_SameError ==
    MainEnded
        => \A i \in 1..Len(raised) :
              /\ main.state = "failed"
              /\ main.exc = raised[i]
              /\ main.result = NoResult

(* C10 as amended: when calls raise, the top-level call ends with the      *)
(* error of the first call that raised, unchanged, and returns no result,  *)
(* whatever its sibling branches had gathered; it never returns a result   *)
(* once a call has raised, and never fails when none has.                  *)
C10_FirstError ==
    /\ raised # <<>> => main.state # "done"
    /\ (MainEnded /\ raised # <<>>)
          => /\ main.state = "failed"
             /\ main.exc = raised[1]
             /\ main.result = NoResult
    /\ main.state = "failed" => raised # <<>>
    /\ \A f \in FrameIds : frames[f].pc = "failed" => frames[f].exc \in Range(raised)

\* a level-1 call raised after a sibling branch had returned with learnings
C10_Witness ==
    /\ main.state = "failed"
    /\ raised[1].call = "distill"
    /\ frames[tasks[raised[1].at].frame].level = 1
    /\ \E t \in TaskIds : /\ tasks[t].pc = "returned"
                          /\ tasks[t].result.learnings # <<>>

----------------------------------------------------------------------------
(* Vocabulary: the service calls made so far, and the stopped loop *)

\* the handle_one tasks whose search call was made (it returned or raised)
SearchCalls == {t \in TaskIds : tasks[t].limit # -1}

\* the handle_one tasks whose distiller call was made
DistillCalls == {t \in TaskIds : tasks[t].num_learnings # -1}

\* the deep_research invocations whose planner call was made
PlannerCalls == {f \in FrameIds : frames[f].max_count # -1}

\* run_until_complete has returned: the loop stopped at the end of an iteration
LoopStopped == stopping /\ ntodo = 0 /\ run = -1

(* C11: once a service call has raised in a branch, no further search      *)
(* call, completion call or progress emission is made anywhere in the tree.*)
C11_AbortTree ==
    [][raised # <<>>
          => /\ SearchCalls' = SearchCalls
             /\ DistillCalls' = DistillCalls
             /\ PlannerCalls' = PlannerCalls
             /\ sink' = sink]_vars

(* C11 as amended: after a service call has raised the run never returns a *)
(* result (the work of the sibling branches is discarded) and a finished   *)
(* branch is never run again (no retry); the sibling branches are not      *)
(* cancelled, and calls and emissions stop only when the loop that ran the *)
(* top-level call has stopped: from then on nothing is run.                *)
C11_AbortAtStop ==
    /\ [](raised # <<>> => main.state # "done" /\ main.result = NoResult)
    /\ [][\A t \in TaskIds : Finished(t) => tasks'[t] = tasks[t]]_vars
    /\ [][~LoopStopped]_vars

\* the run failed and the loop stopped after a sibling of the failed branch
\* had searched, distilled and emitted; a handle of that work is never run
C11_Witness ==
    /\ LoopStopped
    /\ main.state = "failed"
    /\ raised[1] = [call |-> "search", at |-> 1]
    /\ 2 \in SearchCalls /\ 2 \in DistillCalls
    /\ \E i \in 1..Len(sink) : sink[i].p.new_learnings # <<>>
    /\ ready # <<>>

(* C12: generate_serp_queries returns at most max_count queries for every  *)
(* max_count >= 0 and every answer of the service: the first max_count     *)
(* entries, in order, of a longer answer; a shorter answer unchanged.      *)
C12_PlannerTruncates ==
    call.fn = "generate_serp_queries"
        => LET n == call.num_queries
               a == call.answer
           IN  /\ Len(call.out) <= n
               /\ Len(a) > n => call.out = SubSeq(a, 1, n)
               /\ Len(a) <= n => call.out = a

\* a longer answer whose first and last entries differ was cut
C12_Witness ==
    /\ call.fn = "generate_serp_queries"
    /\ call.num_queries = 2
    /\ Len(call.answer) = 3
    /\ call.answer[1] # call.answer[3]
    /\ call.out # call.answer

(* C13: process_serp_result returns at most max_learnings learnings for    *)
(* every max_learnings and every answer of the completion service.         *)
C13_DistillerCap ==
    call.fn = "process_serp_result" => Len(call.out) <= call.num_learnings

(* C14: in every snapshot the sink receives, at every recursion level,     *)
(* total_depth is the depth given to the top-level call and total_breadth  *)
(* the breadth given to the top-level call.                                *)
C14_TotalsAreOriginal ==
    \A i \in 1..Len(sink) :
        /\ sink[i].p.total_depth = frames[1].depth
        /\ sink[i].p.total_breadth = frames[1].breadth

\* the snapshots frame f emitted, in order
SnapshotsOf(f) == SelectSeq(sink, LAMBDA e : e.frame = f)

\* frame f is the deepest level of a branch: its branches made no recursive
\* call, or its breadth had shrunk to 0
Deepest(f) ==
    /\ \A t \in TasksOf(f) : tasks[t].child = 0
    /\ TasksOf(f) # {} \/ frames[f].breadth = 0

(* C15: in a run with breadth >= 1 and depth >= 1 the emitted current_depth *)
(* goes down by exactly 1 per recursion level, and once the run has ended  *)
(* normally the deepest invocation of every branch has emitted a snapshot  *)
(* with current_depth = 0, also where the breadth had shrunk to 0.         *)
C15_DepthReachesZero ==
    frames[1].depth >= 1
        => /\ \A i \in 1..Len(sink) :
                 LET f == sink[i].frame
                 IN  sink[i].p.current_depth \in
                        {frames[1].depth - frames[f].level,
                         frames[1].depth - frames[f].level - 1}
           /\ main.state = "done"
                 => \A f \in FrameIds :
                       Deepest(f) => \E i \in 1..Len(sink) :
                                        /\ sink[i].frame = f
                                        /\ sink[i].p.current_depth = 0

(* C15 as amended: the first snapshot of the invocation at level k has     *)
(* current_depth = D - k and its later ones D - k or D - k - 1; a branch   *)
(* that ended as a leaf has emitted current_depth = 0; an invocation whose *)
(* breadth is 0 emits one snapshot, with its own depth, which is >= 1 when *)
(* it was reached by recursion: no snapshot with 0 comes from that branch. *)
C15_DepthPerLevel ==
    frames[1].depth >= 1
        => /\ \A f \in FrameIds :
                 LET s == SnapshotsOf(f)
                     d == frames[1].depth - frames[f].level
                 IN  /\ s # <<>> => s[1].p.current_depth = d
                     /\ \A j \in 1..Len(s) : s[j].p.current_depth \in {d, d - 1}
                     /\ frames[f].breadth = 0
                           => /\ Len(s) <= 1
                              /\ d >= 1
                              /\ frames[f].pc = "done" => Len(s) = 1
           /\ \A t \in TaskIds :
                 (tasks[t].pc = "returned" /\ tasks[t].child = 0)
                    => \E i \in 1..Len(sink) :
                          /\ sink[i].frame = tasks[t].frame
                          /\ sink[i].p.current_depth = 0
                          /\ frames[tasks[t].frame].depth = 1

\* a run ended normally with a leaf at level 1 that emitted current_depth 0
C15_Witness ==
    /\ main.state = "done"
    /\ \E t \in TaskIds : /\ tasks[t].pc = "returned" /\ tasks[t].child = 0
                          /\ frames[tasks[t].frame].level = 1
    /\ \E i \in 1..Len(sink) : sink[i].p.current_depth = 0

(* C16: get_crawler raises for an unsupported SEARCH_PROVIDER and for each *)
(* supported provider (firecrawl, tavily, openai) whose credential is      *)
(* missing or empty; it runs when the module is imported, so no planner,   *)
(* search or distiller call is made in a process whose configuration is    *)
(* invalid.                                                                *)
C16_ConfigurationFatal ==
    /\ call.fn = "get_crawler"
          => LET env == call.env
             IN  /\ env.SEARCH_PROVIDER \in {"", "bing"} => call.out = "ValueError"
                 /\ ( /\ env.SEARCH_PROVIDER \in {None, "firecrawl"}
                      /\ env.FIRECRAWL_KEY \in {None, ""} ) => call.out \in Errors
                 /\ ( /\ env.SEARCH_PROVIDER \in {"tavily", "Tavily"}
                      /\ env.TAVILY_API_KEY \in {None, ""} ) => call.out \in Errors
                 /\ ( /\ env.SEARCH_PROVIDER = "openai"
                      /\ env.OPENAI_API_KEY \in {None, ""} ) => call.out \in Errors
                 /\ call.web_crawler = call.out
    /\ call.fn \notin {"none", "get_crawler"}
          => call.web_crawler \in {"FirecrawlApp", "TavilyApp", "OpenAISearchApp"}

\* the import failed on an empty Tavily key although the SDK is installed
C16_Witness ==
    /\ call.fn = "get_crawler"
    /\ call.env.SEARCH_PROVIDER = "Tavily"
    /\ call.env.TAVILY_API_KEY = ""
    /\ call.env.tavily_sdk
    /\ call.out = "ValueError"

(* C17: write_final_report returns the synthesized body unchanged,         *)
(* followed by the literal Sources heading and then one line for every     *)
(* element of visited_urls, once for each occurrence and in the given      *)
(* order.                                                                  *)
C17_ReportSources ==
    call.fn = "write_final_report"
        => LET body  == call.reportMarkdown
               urls  == call.visited_urls
               n     == Len(body)
               rest  == SubSeq(call.out, n + 2, Len(call.out))
               lines == SelectSeq(rest, LAMBDA x : x.k = "- ")
           IN  /\ Len(call.out) >= n + 1
               /\ SubSeq(call.out, 1, n) = body
               /\ call.out[n + 1] = SourcesHeading
               /\ Len(lines) = Len(urls)
               /\ \A i \in 1..Len(urls) : lines[i] = Bullet(urls[i])
               /\ Len(rest) = IF urls = <<>> THEN 0 ELSE 2 * Len(urls) - 1
               /\ \A i \in 1..Len(rest) : (i % 2 = 0) <=> (rest[i] = Newline)

\* a report whose sources hold one URL twice, out of increasing order
C17_Witness ==
    /\ call.fn = "write_final_report"
    /\ call.visited_urls = <<2, 1, 2>>
    /\ call.reportMarkdown # <<>>
    /\ Len(call.out) = Len(call.reportMarkdown) + 6

(* C18: when a run with breadth >= 1 and depth >= 1 ends normally, every   *)
(* learning any distiller call returned and every URL any search call      *)
(* returned, in any branch at any level, is in the top-level result.       *)
C18_NothingLost ==
    (main.state = "done" /\ frames[1].depth >= 1)
        => \A t \in TaskIds :
              /\ Range(tasks[t].proc) \subseteq Range(main.result.learnings)
              /\ Range(tasks[t].search_result) \subseteq Range(main.result.visited_urls)

(* C19: the learnings and the visited_urls passed into a recursive         *)
(* deep_research call hold no string twice.                                *)
C19_NoDuplicatesDown ==
    \A f \in FrameIds :
        frames[f].host # 0
            => NoDup(frames[f].learnings) /\ NoDup(frames[f].visited_urls)

(* C19 as amended: what is passed into a recursive call is the list the    *)
(* caller received followed by what the branch harvested, learnings after  *)
(* learnings and URLs after URLs, repetitions kept; the result a completed *)
(* invocation returns holds no string twice.                               *)
C19_ConcatenatedDown ==
    \A f \in FrameIds :
        /\ frames[f].host # 0
              => LET t == frames[f].host
                     g == tasks[t].frame
                 IN  /\ frames[f].learnings = frames[g].learnings \o tasks[t].proc
                     /\ frames[f].visited_urls =
                           frames[g].visited_urls \o tasks[t].search_result
        /\ frames[f].pc = "done"
              => NoDup(frames[f].result.learnings) /\ NoDup(frames[f].result.visited_urls)

\* a recursive call was handed a learning twice and a URL twice
C19_Witness ==
    \E f \in FrameIds :
        /\ frames[f].host # 0
        /\ ~NoDup(frames[f].learnings)
        /\ ~NoDup(frames[f].visited_urls)

\* the snapshot the step has just handed to the sink
Emitted == sink'[Len(sink')]

(* C20: the snapshot emitted right after a branch's distillation holds in  *)
(* new_learnings exactly what this branch's distiller call returned,       *)
(* whatever its siblings did before (nothing runs between the distiller's  *)
(* return, the assignment and the emission); every snapshot emitted when a *)
(* branch completes has new_learnings empty.                               *)
C20_NewLearningsSnapshot ==
    /\ [](\A t \in TaskIds : tasks[t].pc \in {"emit", "branch"} => run = t)
    /\ [][\A t \in TaskIds :
             /\ (tasks[t].pc = "emit" /\ tasks'[t].pc # "emit")
                   => /\ Len(sink') = Len(sink) + 1
                      /\ Emitted.frame = tasks[t].frame
                      /\ Emitted.p.new_learnings = tasks[t].proc
                      /\ Emitted.p.new_learnings = tasks'[t].proc
             /\ (tasks[t].pc = "branch" /\ tasks'[t].pc # "branch")
                   => /\ Len(sink') = Len(sink) + 1
                      /\ Emitted.frame = tasks[t].frame
                      /\ Emitted.p.new_learnings = <<>>
                      /\ Emitted.p.completed_queries =
                            frames[tasks[t].frame].progress.completed_queries + 1]_vars

\* the second sibling has just emitted its own learnings after the first one,
\* which distilled other learnings, had completed
C20_Witness ==
    \E t, u \in TaskIds :
        /\ tasks[t].frame = tasks[u].frame
        /\ tasks[u].pc \in {"child", "returned"}
        /\ tasks[u].proc # tasks[t].proc
        /\ tasks[t].pc = "branch"
        /\ sink # <<>>
        /\ sink[Len(sink)].p.new_learnings = tasks[t].proc
        /\ sink[Len(sink)].p.completed_queries >= 1

(* C21: a service call of a branch is a suspension point at which the      *)
(* sibling branches can run: while a branch is between the start of its    *)
(* search and the end of its distill step, the sibling whose first step is *)
(* next in the loop's queue can be started.                                *)
C21_ServiceCallsSuspend ==
    \A t \in TaskIds :
        ( /\ tasks[t].pc = "distill"
          /\ ready # <<>>
          /\ Head(ready).k = "start"
          /\ tasks[Head(ready).id].frame = tasks[t].frame )
            => ENABLED StartTask(Head(ready).id)

\* how far a branch has come
Rank(pc) ==
    CASE pc = "queued" -> 0
      [] pc = "search" -> 1
      [] pc = "distill" -> 2
      [] pc = "emit" -> 3
      [] pc = "branch" -> 4
      [] pc = "child" -> 5
      [] OTHER -> 6

(* C22: every query the planner gave an invocation gets one branch, which  *)
(* makes one search call with limit = the invocation's breadth and one     *)
(* distiller call with num_learnings = that breadth, none retried, none    *)
(* skipped by a branch that completes; within a branch the order is:       *)
(* search, distill, the new_learnings emission, the completed_queries      *)
(* increment with its emission, then the planner call of the recursion.    *)
C22_CallOrder ==
    /\ [](\A f \in FrameIds :
             /\ frames[f].pc \in {"wait", "merge", "done"}
                   => /\ Len(frames[f].children) = Len(frames[f].serp_queries)
                      /\ \A i \in 1..Len(frames[f].children) :
                            /\ tasks[frames[f].children[i]].serp = frames[f].serp_queries[i]
                            /\ tasks[frames[f].children[i]].frame = f
                      /\ Cardinality(TasksOf(f)) = Len(frames[f].serp_queries)
             /\ frames[f].pc = "done"
                   => \A t \in TasksOf(f) : t \in SearchCalls /\ t \in DistillCalls)
    /\ [](\A t \in TaskIds :
             LET b == frames[tasks[t].frame].breadth
             IN  /\ t \in SearchCalls => tasks[t].limit = b
                 /\ t \in DistillCalls => tasks[t].num_learnings = b /\ t \in SearchCalls
                 /\ Rank(tasks[t].pc) \in 3..5 => t \in SearchCalls /\ t \in DistillCalls
                 /\ tasks[t].pc = "returned" => t \in SearchCalls /\ t \in DistillCalls
                 /\ tasks[t].child # 0 => Rank(tasks[t].pc) >= 5)
    /\ [][\A t \in TaskIds :
             LET f == tasks[t].frame
             IN  /\ Rank(tasks'[t].pc) >= Rank(tasks[t].pc)
                 /\ (t \notin SearchCalls /\ t \in SearchCalls')
                       => /\ Rank(tasks[t].pc) <= 1
                          /\ t \notin DistillCalls
                          /\ sink' = sink
                 /\ (t \notin DistillCalls /\ t \in DistillCalls')
                       => /\ tasks[t].pc = "distill"
                          /\ t \in SearchCalls
                          /\ sink' = sink
                 /\ (t \in SearchCalls => tasks'[t].limit = tasks[t].limit)
                 /\ (t \in DistillCalls => tasks'[t].num_learnings = tasks[t].num_learnings)
                 /\ (tasks[t].pc = "emit" /\ tasks'[t].pc # "emit")
                       => /\ tasks'[t].pc = "branch"
                          /\ Len(sink') = Len(sink) + 1
                          /\ frames'[f].progress.completed_queries =
                                frames[f].progress.completed_queries
                 /\ (tasks[t].pc = "branch" /\ tasks'[t].pc # "branch")
                       => /\ Len(sink') = Len(sink) + 1
                          /\ frames'[f].progress.completed_queries =
                                frames[f].progress.completed_queries + 1
                          /\ tasks'[t].child # 0
                                => frames'[tasks'[t].child].max_count = -1]_vars
    /\ [][\A f \in FrameIds :
             (f \notin PlannerCalls /\ f \in PlannerCalls' /\ frames[f].host # 0)
                => /\ tasks[frames[f].host].pc = "child"
                   /\ tasks[frames[f].host].child = f]_vars

\* both branches of an invocation have completed and one of them recursed
\* into an invocation that has planned
C22_Witness ==
    \E f \in FrameIds :
        /\ frames[f].pc = "done"
        /\ Len(frames[f].serp_queries) = 2
        /\ \E t \in TasksOf(f) : tasks[t].child # 0 /\ tasks[t].child \in PlannerCalls

(* C23: right after planning an invocation emits exactly one snapshot, with *)
(* total_queries = the number of planned queries, completed_queries = 0,    *)
(* current_query = the first planned query (none when nothing was planned)  *)
(* and empty new_learnings; current_query is never changed afterwards.      *)
C23_PlanSnapshot ==
    \A f \in FrameIds :
        LET q == frames[f].serp_queries
            first == IF q = <<>> THEN NoQuery ELSE q[1]
            snaps == SnapshotsOf(f)
        IN  /\ frames[f].pc = "plan" => snaps = <<>>
            /\ frames[f].pc = "gather" => Len(snaps) = 1
            /\ frames[f].pc \in {"gather", "wait", "merge", "done"} => Len(snaps) >= 1
            /\ snaps # <<>>
                  => /\ snaps[1].p.total_queries = Len(q)
                     /\ snaps[1].p.completed_queries = 0
                     /\ snaps[1].p.current_query = first
                     /\ snaps[1].p.new_learnings = <<>>
                     /\ frames[f].progress.current_query = first
                     /\ \A i \in 1..Len(snaps) : snaps[i].p.current_query = first

\* an invocation planned two queries and both of its branches have emitted
C23_Witness ==
    \E f \in FrameIds :
        /\ Len(frames[f].serp_queries) = 2
        /\ frames[f].serp_queries[1] # frames[f].serp_queries[2]
        /\ frames[f].pc = "done"
        /\ Len(SnapshotsOf(f)) = 5

(* C24: a branch increments its invocation's completed_queries exactly     *)
(* once and emits the snapshot in the same step; when depth - 1 > 0 the    *)
(* snapshot has current_depth = depth - 1 and current_breadth =            *)
(* breadth // 2 and the recursive call has not run yet; otherwise the      *)
(* snapshot has current_depth = 0 and the branch returns the learnings and *)
(* URLs it accumulated itself.                                             *)
C24_BranchCompletion ==
    /\ [][\A t \in TaskIds :
             (tasks[t].pc = "branch" /\ tasks'[t].pc # "branch")
                => LET f == tasks[t].frame
                       d == frames[f].depth
                       b == frames[f].breadth
                       p == frames'[f].progress
                   IN  /\ p.completed_queries = frames[f].progress.completed_queries + 1
                       /\ sink' = Append(sink, [frame |-> f, p |-> p])
                       /\ p.new_learnings = <<>>
                       /\ IF d - 1 > 0
                             THEN /\ p.current_depth = d - 1
                                  /\ p.current_breadth = b \div 2
                                  /\ tasks'[t].pc = "child"
                                  /\ tasks'[t].child = Len(frames')
                                  /\ Len(frames') = Len(frames) + 1
                                  /\ frames'[Len(frames')].pc = "plan"
                                  /\ Len(frames') \notin PlannerCalls'
                                  /\ \A i \in 1..Len(sink') : sink'[i].frame # Len(frames')
                             ELSE /\ p.current_depth = 0
                                  /\ p.current_breadth = frames[f].progress.current_breadth
                                  /\ tasks'[t].pc = "returned"
                                  /\ tasks'[t].result =
                                        ResearchResult(frames[f].learnings \o tasks[t].proc,
                                                       frames[f].visited_urls \o
                                                          tasks[t].search_result)
                                  /\ Len(frames') = Len(frames)]_vars
    /\ [][\A f \in FrameIds :
             frames'[f].progress.completed_queries # frames[f].progress.completed_queries
                => \E t \in TasksOf(f) : tasks[t].pc = "branch" /\ tasks'[t].pc # "branch"]_vars
    /\ [][\A t \in TaskIds :
             tasks[t].pc # "branch" /\ Rank(tasks[t].pc) >= 4 => tasks'[t].pc # "branch"]_vars

\* one branch has completed as a leaf with something passed in and another
\* branch has completed by recursing
C24_Witness ==
    /\ \E t \in TaskIds :
          /\ tasks[t].pc = "returned"
          /\ tasks[t].child = 0
          /\ frames[tasks[t].frame].learnings # <<>>
          /\ tasks[t].proc # <<>>
    /\ \E t \in TaskIds : tasks[t].child # 0

(* C25: a deep_research call never modifies the learnings and visited_urls *)
(* it was given: they are the same in every state of the run, a nested     *)
(* call's are the lists its calling branch holds, and what a branch has    *)
(* accumulated is the passed-in lists followed by its own harvest, with    *)
(* nothing of a sibling in it.                                             *)
C25_InputsUntouched ==
    /\ [](\A f \in FrameIds :
             /\ frames[f].host # 0
                   => /\ frames[f].learnings = tasks[frames[f].host].all_learnings
                      /\ frames[f].visited_urls = tasks[frames[f].host].all_urls
             /\ \A t \in TasksOf(f) :
                   Rank(tasks[t].pc) \in 4..5 \/ tasks[t].pc = "returned"
                      => /\ tasks[t].all_learnings = frames[f].learnings \o tasks[t].proc
                         /\ tasks[t].all_urls =
                               frames[f].visited_urls \o tasks[t].search_result)
    /\ [][\A f \in FrameIds :
             /\ frames'[f].learnings = frames[f].learnings
             /\ frames'[f].visited_urls = frames[f].visited_urls]_vars
    /\ [][\A t \in TaskIds :
             Rank(tasks[t].pc) >= 4
                => /\ tasks'[t].all_learnings = tasks[t].all_learnings
                   /\ tasks'[t].all_urls = tasks[t].all_urls]_vars

\* two sibling branches with different harvests have both accumulated on
\* top of a non-empty list that was passed in, and one of them has recursed
C25_Witness ==
    \E t, u \in TaskIds :
        /\ tasks[t].frame = tasks[u].frame
        /\ frames[tasks[t].frame].learnings # <<>>
        /\ Rank(tasks[t].pc) >= 4
        /\ Rank(tasks[u].pc) >= 4
        /\ tasks[t].pc # "raised"
        /\ tasks[u].pc # "raised"
        /\ tasks[t].proc # tasks[u].proc
        /\ tasks[t].child # 0

\* the snapshots a branch has emitted so far: one after its distillation, one
\* at its completion step
EmissionsOf(t) ==
    CASE Rank(tasks[t].pc) <= 3 -> 0
      [] tasks[t].pc = "branch" -> 1
      [] tasks[t].pc = "raised" /\ tasks[t].child = 0 -> 0
      [] OTHER -> 2

(* C26: the sink is called at the emission points and nowhere else: an     *)
(* invocation has emitted one snapshot once it has planned, one more for   *)
(* every branch past its distillation and one more for every branch past   *)
(* its completion step; an invocation that planned n queries and returned  *)
(* has emitted exactly 1 + 2n snapshots of its progress object.            *)
C26_EmissionCount ==
    /\ \A f \in FrameIds :
          LET planned == IF \/ frames[f].pc = "plan"
                            \/ frames[f].pc = "failed" /\ frames[f].children = <<>>
                            THEN 0 ELSE 1
              once == {t \in TasksOf(f) : EmissionsOf(t) >= 1}
              twice == {t \in TasksOf(f) : EmissionsOf(t) = 2}
          IN  /\ Len(SnapshotsOf(f)) = planned + Cardinality(once) + Cardinality(twice)
              /\ frames[f].pc = "done"
                    => Len(SnapshotsOf(f)) = 1 + 2 * Len(frames[f].serp_queries)
    /\ \A i \in 1..Len(sink) : sink[i].frame \in FrameIds

\* invocations that planned two, one and no query have returned
C26_Witness ==
    \A n \in 0..2 :
        \E f \in FrameIds :
            /\ frames[f].pc = "done"
            /\ Len(frames[f].serp_queries) = n
            /\ Len(SnapshotsOf(f)) = 1 + 2 * n

(* C27: when a deep_research invocation returns normally, the              *)
(* completed_queries of its progress object equals its total_queries, the  *)
(* number of queries it planned: each was counted, none twice.             *)
C27_AllCounted ==
    \A f \in FrameIds :
        /\ frames[f].progress.completed_queries <= frames[f].progress.total_queries
        /\ frames[f].progress.completed_queries =
              Cardinality({t \in TasksOf(f) : EmissionsOf(t) = 2})
        /\ frames[f].pc = "done"
              => /\ frames[f].progress.completed_queries = frames[f].progress.total_queries
                 /\ frames[f].progress.total_queries = Len(frames[f].serp_queries)
                 /\ SnapshotsOf(f)[Len(SnapshotsOf(f))].p.completed_queries =
                       IF frames[f].serp_queries = <<>> THEN 0
                       ELSE frames[f].progress.total_queries

\* the top-level invocation has returned with two queries counted, after a
\* nested invocation returned with one
C27_Witness ==
    /\ main.state = "done"
    /\ frames[1].progress.completed_queries = 2
    /\ \E f \in FrameIds :
          /\ frames[f].host # 0
          /\ frames[f].pc = "done"
          /\ frames[f].progress.completed_queries = 1

\* _on_progress: the progress bar shows completed_queries / max(total_queries, 1)
Max(a, b) == IF a >= b THEN a ELSE b

(* C28: over one run, the ratio completed_queries / max(total_queries, 1)  *)
(* of the successive snapshots delivered to the sink never decreases and   *)
(* stays within 0 and 1 (the fractions are compared by cross               *)
(* multiplication).                                                        *)
C28_RatioMonotone ==
    /\ \A i \in 1..Len(sink) :
          /\ sink[i].p.completed_queries >= 0
          /\ sink[i].p.completed_queries <= Max(sink[i].p.total_queries, 1)
    /\ \A i \in 1..(Len(sink) - 1) :
          sink[i].p.completed_queries * Max(sink[i + 1].p.total_queries, 1)
             <= sink[i + 1].p.completed_queries * Max(sink[i].p.total_queries, 1)

\* the product of B >> i for i < k
RECURSIVE Product(_, _)
Product(B, k) == IF k = 0 THEN 1 ELSE Product(B, k - 1) * Shr(B, k - 1)

\* the deep_research invocations at recursion level k
InvocationsAt(k) == {f \in FrameIds : frames[f].level = k}

\* the search calls made by branches of the invocations at level k
SearchCallsAt(k) == {t \in SearchCalls : frames[tasks[t].frame].level = k}

(* C29: for an initial breadth B >= 1 and depth D >= 1, at most the        *)
(* product of (B >> i) for i < k invocations exist at recursion level k,   *)
(* at most the product of (B >> i) for i <= k search calls are made at     *)
(* level k, and no invocation exists at a level k >= D.                    *)
C29_WorkBound ==
    LET B == frames[1].breadth
        D == frames[1].depth
    IN  (B >= 1 /\ D >= 1)
           => \A k \in 0..(MaxDepth + 1) :
                 /\ Cardinality(InvocationsAt(k)) <= Product(B, k)
                 /\ Cardinality(SearchCallsAt(k)) <= Product(B, k + 1)
                 /\ k >= D => InvocationsAt(k) = {}

\* breadth 2, depth 3: both bounds are reached at levels 0 and 1, and the
\* invocations of level 2, of breadth 0, have planned and searched nothing
C29_Witness ==
    /\ frames[1].breadth = 2
    /\ frames[1].depth = 3
    /\ MainEnded
    /\ Cardinality(InvocationsAt(1)) = 2
    /\ Cardinality(SearchCallsAt(0)) = 2
    /\ Cardinality(SearchCallsAt(1)) = 2
    /\ Cardinality(InvocationsAt(2)) = 2
    /\ SearchCallsAt(2) = {}

\* a snapshot without its depth fields
Flat(p) == [p EXCEPT !.current_depth = 0, !.total_depth = 0]

\* the plan snapshot of a one-level run, depth fields apart
OneLevelPlanned ==
    [ResearchProgress(0, frames[1].breadth) EXCEPT
        !.total_queries = Len(frames[1].serp_queries),
        !.current_query = IF frames[1].serp_queries = <<>> THEN NoQuery
                          ELSE frames[1].serp_queries[1]]

\* the snapshots the branches t, t + 1, ... of a one-level run have delivered,
\* depth fields apart, c branches having completed before them: written from
\* the breadth, the planned queries and the distiller's answers only
RECURSIVE OneLevelSnapshots(_, _)
OneLevelSnapshots(t, c) ==
    IF t > Len(tasks) THEN <<>>
    ELSE LET e == EmissionsOf(t)
             distilled == [OneLevelPlanned EXCEPT !.completed_queries = c,
                                                  !.new_learnings = tasks[t].proc]
             completed == [OneLevelPlanned EXCEPT !.completed_queries = c + 1]
         IN  (IF e >= 1 THEN <<distilled>> ELSE <<>>)
                \o (IF e = 2 THEN <<completed>> ELSE <<>>)
                \o OneLevelSnapshots(t + 1, IF e = 2 THEN c + 1 ELSE c)

\* what a one-level run returns, written from the lists passed in, the search
\* results and the distiller's answers only
OneLevelResult ==
    LET n == Len(frames[1].serp_queries)
    IN  ResearchResult(
           SetToList(UNION {Range(frames[1].learnings) \cup Range(tasks[t].proc) :
                               t \in 1..n}),
           SetToList(UNION {Range(frames[1].visited_urls) \cup
                               Range(search(Web(tasks[t].serp), frames[1].breadth)) :
                               t \in 1..n}))

(* C30: a call with depth 0 behaves like one with depth 1: it makes the    *)
(* planner call and one level of search and distiller calls, never         *)
(* recurses, and what it returns and what it emits, depth fields apart, is *)
(* the same function of the breadth, the lists passed in and the services' *)
(* answers, in which the depth does not occur; the depth fields are        *)
(* total_depth = depth and current_depth = depth until the first branch    *)
(* completes and 0 from then on.                                           *)
C30_DepthZeroAsOne ==
    frames[1].depth \in {0, 1}
       => /\ Len(frames) = 1
          /\ \A t \in TaskIds : tasks[t].child = 0 /\ tasks[t].frame = 1
          /\ sink # <<>>
                => [i \in 1..Len(sink) |-> Flat(sink[i].p)] =
                      <<OneLevelPlanned>> \o OneLevelSnapshots(1, 0)
          /\ \A i \in 1..Len(sink) :
                /\ sink[i].p.total_depth = frames[1].depth
                /\ sink[i].p.current_depth =
                      IF sink[i].p.completed_queries = 0 THEN frames[1].depth ELSE 0
          /\ main.state = "done"
                => /\ PlannerCalls = {1}
                   /\ frames[1].max_count = frames[1].breadth
                   /\ SearchCalls = 1..Len(frames[1].serp_queries)
                   /\ DistillCalls = 1..Len(frames[1].serp_queries)
                   /\ \A t \in TaskIds : tasks[t].serp = frames[1].serp_queries[t]
                   /\ Len(sink) = 1 + 2 * Len(frames[1].serp_queries)
                   /\ main.result = OneLevelResult

\* a call with depth 0, breadth 2 and non-empty lists passed in has returned
\* after two branches with different harvests
C30_Witness ==
    /\ frames[1].depth = 0
    /\ frames[1].breadth = 2
    /\ frames[1].learnings # <<>>
    /\ main.state = "done"
    /\ Len(tasks) = 2
    /\ tasks[1].proc # tasks[2].proc
    /\ Len(sink) = 5

----------------------------------------------------------------------------
(* deep_research with and without a progress callback *)

\* on_progress is an optional parameter: a callback, or None
SinkInit ==
    /\ \E b \in 1..MaxBreadth, d \in 0..MaxDepth, s \in SeedInputs :
          frames = <<NewFrame(b, d, s.learnings, s.visited_urls, 0, 0)>>
    /\ tasks = <<>>
    /\ ready = <<>>
    /\ ntodo = 0
    /\ run = 0
    /\ stopping = FALSE
    /\ main = [state |-> "pending", result |-> NoResult, exc |-> NoError]
    /\ sink = <<>>
    /\ raised = <<>>
    /\ on_progress \in BOOLEAN
    /\ call = LoadedWith(TavilyEnv)

SinkSpec == SinkInit /\ [][Next]_vars

\* what the invocation f returns, written from the lists it was given, the
\* queries planned and the search results and learnings of the branches below it
RECURSIVE ExpectedResult(_)
ExpectedResult(f) ==
    LET of(t) == IF tasks[t].child # 0
                    THEN ExpectedResult(tasks[t].child)
                    ELSE ResearchResult(
                            frames[f].learnings \o tasks[t].proc,
                            frames[f].visited_urls \o
                               search(Web(tasks[t].serp), frames[f].breadth))
        rs == [i \in 1..Len(frames[f].children) |-> of(frames[f].children[i])]
    IN  ResearchResult(
            SetToList(UNION {Range(rs[i].learnings) : i \in 1..Len(rs)}),
            SetToList(UNION {Range(rs[i].visited_urls) : i \in 1..Len(rs)}))

(* C31: the result of deep_research and the calls it makes do not depend   *)
(* on the progress callback: with a callback or with None, an invocation   *)
(* that returns has made one planner call, one search and one distiller    *)
(* call per planned query and one nested call per branch when depth - 1 >  *)
(* 0, and returns the same function of its inputs and the services'        *)
(* answers, in which neither the callback nor what it was shown occurs;    *)
(* without a callback nothing is emitted.                                  *)
C31_SinkIndependent ==
    /\ ~on_progress => sink = <<>>
    /\ \A f \in FrameIds :
          frames[f].pc = "done"
             => /\ f \in PlannerCalls
                /\ Len(frames[f].children) = Len(frames[f].serp_queries)
                /\ \A i \in 1..Len(frames[f].children) :
                      LET t == frames[f].children[i]
                      IN  /\ tasks[t].serp = frames[f].serp_queries[i]
                          /\ t \in SearchCalls
                          /\ t \in DistillCalls
                          /\ tasks[t].search_result =
                                search(Web(tasks[t].serp), frames[f].breadth)
                          /\ (tasks[t].child # 0) = (frames[f].depth - 1 > 0)
                          /\ tasks[t].child # 0
                                => /\ frames[tasks[t].child].pc = "done"
                                   /\ frames[tasks[t].child].learnings =
                                         frames[f].learnings \o tasks[t].proc
                                   /\ frames[tasks[t].child].visited_urls =
                                         frames[f].visited_urls \o tasks[t].search_result
                                   /\ frames[tasks[t].child].breadth = frames[f].breadth \div 2
                                   /\ frames[tasks[t].child].depth = frames[f].depth - 1
                /\ frames[f].result = ExpectedResult(f)
                /\ frames[f].host = 0
                      => main.state = "done" /\ main.result = ExpectedResult(f)

\* a run without a callback has returned learnings gathered by two branches,
\* one level below the top
C31_Witness ==
    /\ ~on_progress
    /\ main.state = "done"
    /\ main.result.learnings # <<>>
    /\ Len(frames) = 3
    /\ frames[1].learnings # <<>>

(* C32: after a history file is loaded, the session history, which held no *)
(* two equal entries before, holds no two equal entries, and loading the   *)
(* same file a second time adds nothing.                                   *)
C32_HistoryNoDuplicates ==
    call.fn = "upload_history"
       => /\ \A i, j \in 1..Len(call.out) :
                EqualEntries(call.out[i], call.out[j]) => i = j
          /\ call.again = call.out

(* C33: each search wrapper returns at most limit items, for every limit   *)
(* >= 0 and every answer of the provider, in the provider's order: the     *)
(* first items of the answer (of its url citations, for the OpenAI         *)
(* wrapper).                                                               *)
C33_AtMostLimit ==
    call.fn = "search"
       => LET hits == SelectSeq(call.answer, LAMBDA a : a # 0)
          IN  /\ Len(call.out) <= call.limit
              /\ call.out = SubSeq(hits, 1, Len(call.out))

====
